---- MODULE Spec2Model ----
(***************************************************************************)
(* A model of services/api/main.py of govpal: the chunker (chunk_text),    *)
(* the year heuristic (extract_year_from_text), the file-backed index      *)
(* (load_index / save_index), the ingestion pipeline (ingest_documents /   *)
(* process_single_file) and the search (search_documents).                 *)
(*                                                                         *)
(* The request handlers are asyncio coroutines on one event loop.  A       *)
(* coroutine runs without interruption up to its next await that really    *)
(* suspends (every aiofiles call: it runs in a worker thread); np.load,    *)
(* np.save, os.path.exists and model.encode are plain synchronous calls.   *)
(* Each action below is one such uninterrupted stretch, or the effect on   *)
(* the file system of one aiofiles call made by a worker thread.           *)
(***************************************************************************)
EXTENDS Integers, Sequences, FiniteSets, TLC

\* ------------------------------------------------------------------ bounds
\* Most files one /ingest request carries.
MaxBatch == 2
\* Most chunks chunk_text makes of one uploaded file's text.
MaxChunks == 2
\* Most environment failures (disk, embedding model, upload read) in one run.
MaxFaults == 1
\* chunk_text's inputs: the longest text, the most characters of it that are
\* not letters, the largest chunk_size and the largest overlap.
MaxTextLen == 12
MaxMarks == 2
MaxChunkSize == 11
MaxOverlap == 2
\* The store searched: most chunks after the older ones, and the /search
\* requests that follow one another.
MaxStore == 2
MaxSearches == 2
\* Most words of the text a year is extracted from.
MaxWords == 3

\* Concurrent /ingest requests and concurrent /search requests.
Ingesters == {"w1", "w2"}
Searchers == {"r1"}
Procs == Ingesters \cup Searchers

VARIABLES
    \* the index directory: embeddings.npy, chunks.json, docs.json
    embFile, chunksFile, docsFile,
    \* the storage directory: the names of the uploaded files kept
    storage,
    \* per request: where its coroutine stands
    pc,
    \* per /ingest request: len(files), the files iterated so far, results,
    \* and the counters files_successful / files_failed / total_chunks
    nfiles, files, results, tally,
    \* per request: index_data of its load_index call, and the content a
    \* worker thread has read for it
    idx, raw,
    \* per request: the HTTP response ("none" while running)
    response,
    \* environment failures injected so far
    faults,
    \* per /search request slot: q's dept and limit, and the answers given
    query, found,
    \* process_single_file's year: the form field, the extracted text, the
    \* local `year`, and the year put on the chunk and doc entries
    form_year, ytext, year, entry_year, ypc,
    \* chunk_text's locals
    text, chunk_size, overlap, start, end, chunks, cuts, cpc

storeVars == <<embFile, chunksFile, docsFile>>
reqVars == <<nfiles, files>>
chunkVars == <<text, chunk_size, overlap, start, end, chunks, cuts, cpc>>
ingestVars ==
    <<embFile, chunksFile, docsFile, storage, pc, nfiles, files, results,
      tally, idx, raw, response, faults, query, found>>

\* What the steps of a request that is under way never touch.
yearVars == <<form_year, ytext, year, entry_year, ypc>>

otherVars == <<chunkVars, query, yearVars>>

vars == <<embFile, chunksFile, docsFile, storage, pc, nfiles, files, results,
          tally, idx, raw, response, faults, query, found,
          form_year, ytext, year, entry_year, ypc,
          text, chunk_size, overlap, start, end, chunks, cuts, cpc>>

\* ------------------------------------------------------------- the files
\* A persisted artifact: absent, unparsable (truncated by open(..., 'w'),
\* partly written, or overwritten by two writers), or holding a list.
NoFile == [st |-> "missing", data |-> <<>>]
Garbled == [st |-> "corrupt", data |-> <<>>]
Stored(d) == [st |-> "ok", data |-> d]

\* What a reader gets out of an artifact that parses.
Data(f) == IF f.st = "ok" THEN f.data ELSE <<>>

\* An uploaded file's bytes, by what extract_text_from_file makes of them:
\* it raises, it returns only whitespace, or it returns a text that
\* chunk_text splits into n chunks.
Contents ==
    {[kind |-> "unreadable", n |-> 0], [kind |-> "blank", n |-> 0]}
        \cup {[kind |-> "text", n |-> k] : k \in 1..MaxChunks}

SomeText == [kind |-> "text", n |-> 1]

\* The uploads: one without a filename, one with an unsupported extension,
\* and a.pdf with every content.
Uploads ==
    {[filename |-> "", content |-> SomeText],
     [filename |-> "notes.txt", content |-> SomeText]}
        \cup {[filename |-> "a.pdf", content |-> c] : c \in Contents}

\* filename.lower().split('.')[-1]
FileExtension(filename) ==
    CASE filename = "a.pdf" -> "pdf"
      [] filename = "notes.txt" -> "txt"
      [] OTHER -> filename

\* SupportedExtensions with txt let through.
SupportedExtensionsAndTxt == {"pdf", "docx", "doc", "txt"}

SupportedExtensions == {"pdf", "docx", "doc"}

\* generate_doc_id(filename, md5(content)): a function of the pair.
generate_doc_id(filename, content) == <<filename, content>>

DocIdOf(f) == generate_doc_id(f.filename, f.content)

NoDocId == <<>>

\* An Optional[int]: None, or an int.
NoneYear == [none |-> TRUE, v |-> 0]

SomeYear(y) == [none |-> FALSE, v |-> y]

\* `if year:` and `if not year:` on an Optional[int].
YearIsTruthy(y) == ~y.none /\ y.v # 0

\* An Optional[str] that is None.
NoDept == "<None>"

\* `if dept:` on an Optional[str].
DeptIsTruthy(d) == d \notin {NoDept, ""}

\* The form fields of the /ingest requests followed: dept and year are given.
FormDept == "fin"

FormYear == SomeYear(2021)

\* chunk_entries of process_single_file: one entry per chunk of the text.
ChunkEntries(f) ==
    [i \in 1..f.content.n |->
        [id |-> <<DocIdOf(f), i>>, doc_id |-> DocIdOf(f),
         year |-> FormYear, dept |-> FormDept]]

\* The scores are in ten-thousandths: 4500 is 0.45.
\* The cosine similarity of the query followed with the vector of a chunk
\* of an uploaded text: the first chunk is close to the query, the others
\* are just below SIMILARITY_THRESHOLD.
Relevance(entry) == IF entry.id[2] = 1 THEN 9004 ELSE 4499

\* model.encode(chunks): one vector per chunk, named by the chunk it
\* encodes, with its cosine similarity to the query followed.
Encode(entries) ==
    [i \in 1..Len(entries) |->
        [chunk |-> entries[i].id, sim |-> Relevance(entries[i])]]

DocEntry(f) ==
    [id |-> DocIdOf(f), title |-> f.filename, year |-> FormYear, dept |-> FormDept]

\* f"{doc_id}_{filename}" in STORAGE_DIR
StoragePath(f) == <<DocIdOf(f), f.filename>>

\* index_data as load_index first builds it.
EmptyIndex ==
    [embeddings |-> [none |-> TRUE, data |-> <<>>], chunks |-> <<>>, docs |-> <<>>]

\* "Update index" of process_single_file.
NewEmbeddings(ix, f) ==
    IF ~ix.embeddings.none
    THEN ix.embeddings.data \o Encode(ChunkEntries(f))
    ELSE Encode(ChunkEntries(f))

AllChunks(ix, f) == ix.chunks \o ChunkEntries(f)

\* AllDocs with a document that is already recorded left out.
AllDocsOnce(ix, f) ==
    IF \E i \in DOMAIN ix.docs : ix.docs[i].id = DocIdOf(f)
    THEN ix.docs
    ELSE ix.docs \o <<DocEntry(f)>>

AllDocs(ix, f) == ix.docs \o <<DocEntry(f)>>

\* ----------------------------------------------------------- the results
FileIngestResult(filename, document_id, chunks_created, status, cause) ==
    [filename |-> filename, document_id |-> document_id,
     chunks_created |-> chunks_created, status |-> status, cause |-> cause]

SuccessResult(f) ==
    FileIngestResult(f.filename, DocIdOf(f), f.content.n, "success", "")

\* The except clause of process_single_file: any exception becomes a result.
ErrorResult(f, cause) == FileIngestResult(f.filename, NoDocId, 0, "error", cause)

NoTally == [files_successful |-> 0, files_failed |-> 0, total_chunks |-> 0]

\* Count with a skipped file counted in neither counter.
CountSkippedApart(t, res) ==
    IF res.status = "success"
    THEN [t EXCEPT !.files_successful = @ + 1,
                   !.total_chunks = @ + res.chunks_created]
    ELSE IF res.status = "skipped" THEN t
    ELSE [t EXCEPT !.files_failed = @ + 1]

Count(t, res) ==
    IF res.status = "success"
    THEN [t EXCEPT !.files_successful = @ + 1,
                   !.total_chunks = @ + res.chunks_created]
    ELSE [t EXCEPT !.files_failed = @ + 1]

\* The file the request is working on.
Cur(p) == files[p][Len(files[p])]

\* process_single_file has returned (its locals are gone):
\* results.append(result), the counters, and back to the top of the loop.
Record(p, res) ==
    /\ results' = [results EXCEPT ![p] = Append(@, res)]
    /\ tally' = [tally EXCEPT ![p] = Count(@, res)]
    /\ pc' = [pc EXCEPT ![p] = "loop"]
    /\ idx' = [idx EXCEPT ![p] = EmptyIndex]

CanFail == faults < MaxFaults

Fault == faults' = faults + 1

\* -------------------------------------------------------------- the state
\* No request has arrived.
InitIdle ==
    /\ pc = [p \in Procs |-> "idle"]
    /\ nfiles = [p \in Ingesters |-> 0]
    /\ files = [p \in Ingesters |-> <<>>]
    /\ results = [p \in Ingesters |-> <<>>]
    /\ tally = [p \in Ingesters |-> NoTally]
    /\ idx = [p \in Procs |-> EmptyIndex]
    /\ raw = [p \in Procs |-> NoFile]
    /\ response = [p \in Procs |-> "none"]
    /\ faults = 0
    /\ found = [r \in Searchers |-> <<>>]

\* The directories are empty and no request has arrived.
InitStore ==
    /\ embFile = NoFile
    /\ chunksFile = NoFile
    /\ docsFile = NoFile
    /\ storage = {}
    /\ InitIdle

\* GET /search?q=... with the defaults: no dept, limit=10.
DefaultQuery == [dept |-> NoDept, limit |-> 10]

InitDefaultQuery == query = [r \in Searchers |-> DefaultQuery]

\* No call of chunk_text is followed.
InitNoChunking ==
    /\ text = <<>>
    /\ chunk_size = 0
    /\ overlap = 0
    /\ start = 0
    /\ end = 0
    /\ chunks = <<>>
    /\ cuts = <<>>
    /\ cpc = "off"

\* No ingestion's year is followed.
InitNoYear ==
    /\ form_year = NoneYear
    /\ ytext = <<>>
    /\ year = NoneYear
    /\ entry_year = [chunks |-> NoneYear, doc |-> NoneYear]
    /\ ypc = "off"

Init == InitStore /\ InitDefaultQuery /\ InitNoChunking /\ InitNoYear

\* ------------------------------------------------------------- load_index
\* Every operator of this section fixes pc, idx, results, tally, response,
\* embFile and faults; the action that uses it fixes the other variables.

\* The coroutine stops at an aiofiles call with index_data = ix.
Suspend(p, at, ix) ==
    /\ pc' = [pc EXCEPT ![p] = at]
    /\ idx' = [idx EXCEPT ![p] = ix]
    /\ UNCHANGED <<results, tally, response, found, embFile, faults>>

\* process_single_file from model.encode(chunks) to np.save inside
\* save_index, where the coroutine stops at aiofiles.open(chunks_path, 'w').
\* An exception of encode or of np.save reaches the except clause of
\* process_single_file and becomes an "error" result.
EncodeFails(p, ix) ==
    /\ CanFail
    /\ Fault
    /\ Record(p, ErrorResult(Cur(p), "embedding"))
    /\ UNCHANGED <<embFile, response, found>>

SaveEmbeddings(p, ix) ==
    /\ embFile' = Stored(NewEmbeddings(ix, Cur(p)))
    /\ pc' = [pc EXCEPT ![p] = "wr_chunks_open"]
    /\ idx' = [idx EXCEPT ![p] = ix]
    /\ UNCHANGED <<results, tally, response, found, faults>>

\* np.save raises: before it opened the file, or with the file partly written.
SaveEmbeddingsFails(p, ix) ==
    /\ CanFail
    /\ Fault
    /\ \E e \in {embFile, Garbled} : embFile' = e
    /\ Record(p, ErrorResult(Cur(p), "persist"))
    /\ UNCHANGED <<response, found>>

IngestAfterLoad(p, ix) ==
    \/ EncodeFails(p, ix)
    \/ SaveEmbeddings(p, ix)
    \/ SaveEmbeddingsFails(p, ix)

\* ------------------------------------------------------- search_documents
\* A slice index of Python, brought into 0..n.
SliceIndex(i, n) ==
    IF i < 0 THEN (IF i + n < 0 THEN 0 ELSE i + n)
    ELSE IF i > n THEN n ELSE i

\* s[a:b] of Python, on 0-based a and b of either sign.
PySlice(s, a, b) == SubSeq(s, SliceIndex(a, Len(s)) + 1, SliceIndex(b, Len(s)))

SIMILARITY_THRESHOLD == 4500

\* chunk_scores[:50]
TopWindow == 50

MaxOf(S) == CHOOSE x \in S : \A y \in S : y <= x

\* similarities = cosine_similarity(query_embedding, embeddings)[0], and
\* chunk_scores = list(enumerate(similarities)): chunk_idx counts from 0.
ChunkScores(embeddings) ==
    [i \in 1..Len(embeddings) |->
        [chunk_idx |-> i - 1, score |-> embeddings[i].sim]]

\* list.sort(key=score, reverse=True) and sorted(...): the sort is stable,
\* so entries of equal score stay in the order they had.
RECURSIVE SortDescending(_)
SortDescending(seq) ==
    IF seq = <<>> THEN <<>>
    ELSE LET m == MaxOf({seq[i].score : i \in DOMAIN seq})
             IsTop(x) == x.score = m
             IsRest(x) == x.score # m
         IN  SelectSeq(seq, IsTop) \o SortDescending(SelectSeq(seq, IsRest))

\* SortOutcomes of a sort that is not stable: entries of equal score are
\* left in their order or in the opposite one.
SortOutcomesUnstable(chunk_scores) ==
    {SortDescending(chunk_scores),
     SortDescending([i \in 1..Len(chunk_scores) |->
                        chunk_scores[Len(chunk_scores) + 1 - i]])}

\* What chunk_scores.sort(...) can leave: the one stable order.
SortOutcomes(chunk_scores) == {SortDescending(chunk_scores)}

\* TopChunks without the restriction to 50.
TopChunksUnrestricted(chunk_scores) == chunk_scores

\* for chunk_idx, score in chunk_scores[:50]
TopChunks(chunk_scores) == PySlice(chunk_scores, 0, TopWindow)

\* AboveThreshold with the rounded score compared.
AboveThresholdRounded(top) ==
    LET Clears(x) == ~((x.score + 5) \div 10 < 450)
    IN  SelectSeq(top, Clears)

\* The entries of the loop over chunk_scores[:50] that reach
\* index_data["chunks"][chunk_idx].
AboveThreshold(top) ==
    LET Clears(x) == ~(x.score < SIMILARITY_THRESHOLD)
    IN  SelectSeq(top, Clears)

\* filtered_chunks: (chunk_idx, score, chunk) of the entries that clear the
\* threshold and pass the department filter.
FilteredChunks(top, stored, dept) ==
    LET Passes(x) ==
            ~(DeptIsTruthy(dept) /\ stored[x.chunk_idx + 1].dept # dept)
    IN  [i \in 1..Len(SelectSeq(AboveThreshold(top), Passes)) |->
            LET x == SelectSeq(AboveThreshold(top), Passes)[i]
            IN  [chunk_idx |-> x.chunk_idx, score |-> x.score,
                 chunk |-> stored[x.chunk_idx + 1]]]

\* The keys of doc_scores in the order they were inserted.
RECURSIVE DocOrder(_, _)
DocOrder(filtered, seen) ==
    IF filtered = <<>> THEN <<>>
    ELSE IF Head(filtered).chunk.doc_id \in seen
    THEN DocOrder(Tail(filtered), seen)
    ELSE <<Head(filtered).chunk.doc_id>>
            \o DocOrder(Tail(filtered), seen \cup {Head(filtered).chunk.doc_id})

\* doc_scores.items(): per document its max_score and its chunks.
DocScores(filtered) ==
    LET order == DocOrder(filtered, {})
    IN  [k \in 1..Len(order) |->
            LET Mine(x) == x.chunk.doc_id = order[k]
                mine == SelectSeq(filtered, Mine)
            IN  [doc_id |-> order[k],
                 score |-> MaxOf({mine[i].score : i \in DOMAIN mine}),
                 chunks |-> mine]]

\* max(doc_data["chunks"], key=lambda x: x[1]): the first of the greatest.
BestChunk(doc_chunks) ==
    LET m == MaxOf({doc_chunks[i].score : i \in DOMAIN doc_chunks})
        IsTop(x) == x.score = m
    IN  Head(SelectSeq(doc_chunks, IsTop))

\* round(score, 3): ten-thousandths to thousandths (no score followed ends
\* in a 5).
Round3(score) == IF score % 10 >= 5 THEN score \div 10 + 1 ELSE score \div 10

\* doc_lookup.get(doc_id, {}).get("title", "Unknown Document"): of several
\* records with one id the dict keeps the last.
TitleOf(docs, doc_id) ==
    LET at == {i \in DOMAIN docs : docs[i].id = doc_id}
    IN  IF at = {} THEN "Unknown Document" ELSE docs[MaxOf(at)].title

\* "Build results": one SearchResult per document of sorted_docs[:limit];
\* best_chunk stands for the content and the path taken from it.
SearchResults(sorted_docs, docs, limit) ==
    LET kept == PySlice(sorted_docs, 0, limit)
    IN  [k \in 1..Len(kept) |->
            LET best_chunk == BestChunk(kept[k].chunks)
            IN  [id |-> kept[k].doc_id,
                 title |-> TitleOf(docs, kept[k].doc_id),
                 best_chunk |-> [chunk_idx |-> best_chunk.chunk_idx,
                                 score |-> best_chunk.score,
                                 id |-> best_chunk.chunk.id],
                 score |-> Round3(best_chunk.score),
                 year |-> best_chunk.chunk.year,
                 dept |-> best_chunk.chunk.dept,
                 chunk_count |-> Len(kept[k].chunks)]]

\* "Build aggregates": a count per year and per dept over every chunk
\* loaded, for the years and depts that are truthy.
Aggregates(stored) ==
    LET years == {stored[i].year.v : i \in {j \in DOMAIN stored : YearIsTruthy(stored[j].year)}}
        depts == {stored[i].dept : i \in {j \in DOMAIN stored : DeptIsTruthy(stored[j].dept)}}
    IN  [byYear |-> [y \in years |->
                        Cardinality({i \in DOMAIN stored :
                            YearIsTruthy(stored[i].year) /\ stored[i].year.v = y})],
         byDept |-> [d \in depts |->
                        Cardinality({i \in DOMAIN stored : stored[i].dept = d})]]

NoAggregates == [byYear |-> <<>>, byDept |-> <<>>]

\* The SearchResponse of the early return, and an HTTPException(500).
EmptyAnswer == [status |-> "empty", results |-> <<>>, aggregates |-> NoAggregates]

ServerError == [status |-> "http500", results |-> <<>>, aggregates |-> NoAggregates]

\* search_documents from the sort on, for one outcome of the sort.  The
\* chunk of an entry that clears the threshold is looked up by position:
\* when no chunk is at that position, IndexError becomes HTTP 500.
Answer(ix, q, sorted) ==
    LET top == TopChunks(sorted)
    IN  IF \E i \in DOMAIN AboveThreshold(top) :
                AboveThreshold(top)[i].chunk_idx >= Len(ix.chunks)
        THEN ServerError
        ELSE [status |-> "ok",
              results |-> SearchResults(
                            SortDescending(DocScores(
                                FilteredChunks(top, ix.chunks, q.dept))),
                            ix.docs, q.limit),
              aggregates |-> Aggregates(ix.chunks)]

\* search_documents after load_index.  An empty index answers at once.
SearchOutcomes(ix, q) ==
    IF ix.chunks = <<>> \/ ix.embeddings.none
    THEN {EmptyAnswer}
    ELSE {Answer(ix, q, sorted) :
            sorted \in SortOutcomes(ChunkScores(ix.embeddings.data))}

\* The answer is given; model.encode([q]) may raise, which is HTTP 500.
SearchAfterLoad(r, ix) ==
    /\ pc' = [pc EXCEPT ![r] = "done"]
    /\ idx' = [idx EXCEPT ![r] = ix]
    /\ \/ /\ \E o \in SearchOutcomes(ix, query[r]) :
                /\ response' = [response EXCEPT ![r] = o.status]
                /\ found' = [found EXCEPT ![r] = Append(@, o)]
          /\ UNCHANGED faults
       \/ /\ ix.chunks # <<>> /\ ~ix.embeddings.none
          /\ CanFail
          /\ Fault
          /\ response' = [response EXCEPT ![r] = "http500"]
          /\ found' = [found EXCEPT ![r] = Append(@, ServerError)]
    /\ UNCHANGED <<results, tally, embFile>>

\* load_index has returned ix to its caller.
AfterLoad(p, ix) ==
    IF p \in Ingesters THEN IngestAfterLoad(p, ix) ELSE SearchAfterLoad(p, ix)

\* "Load docs": os.path.exists(docs_path), then aiofiles.open.
DocsPhase(p, ix) ==
    IF docsFile.st = "missing" THEN AfterLoad(p, ix) ELSE Suspend(p, "rd_docs", ix)

\* "Load chunks": os.path.exists(chunks_path), then aiofiles.open.
ChunksPhase(p, ix) ==
    IF chunksFile.st = "missing"
    THEN DocsPhase(p, ix)
    ELSE Suspend(p, "rd_chunks", ix)

\* load_index from its first line: np.load is synchronous; when it raises,
\* the one except clause of load_index returns index_data as it stands.
LoadIndexBegin(p) ==
    CASE embFile.st = "missing" -> ChunksPhase(p, EmptyIndex)
      [] embFile.st = "corrupt" -> AfterLoad(p, EmptyIndex)
      [] embFile.st = "ok" ->
            ChunksPhase(p, [EmptyIndex EXCEPT
                !.embeddings = [none |-> FALSE, data |-> embFile.data]])

\* json.loads(content) for chunks.json, then on to docs.json; a content
\* that does not parse raises, and load_index returns what it has so far.
ChunksLoaded(p) ==
    IF raw[p].st = "ok"
    THEN DocsPhase(p, [idx[p] EXCEPT !.chunks = raw[p].data])
    ELSE AfterLoad(p, idx[p])

DocsLoaded(p) ==
    IF raw[p].st = "ok"
    THEN AfterLoad(p, [idx[p] EXCEPT !.docs = raw[p].data])
    ELSE AfterLoad(p, idx[p])

loadFrame == <<chunksFile, docsFile, nfiles, files, storage, otherVars>>

\* ---------------------------------------------------------------- actions
\* ingest_documents up to the loop; an empty list is HTTP 400.
IngestStart(p, n) ==
    /\ pc[p] = "idle"
    /\ nfiles' = [nfiles EXCEPT ![p] = n]
    /\ IF n = 0
       THEN /\ pc' = [pc EXCEPT ![p] = "done"]
            /\ response' = [response EXCEPT ![p] = "http400"]
       ELSE /\ pc' = [pc EXCEPT ![p] = "loop"]
            /\ UNCHANGED response
    /\ UNCHANGED <<otherVars, storeVars, storage, files, results, tally, idx, raw, faults, found>>

\* RejectNoFilename with the result counted but never appended.
RejectNoFilenameUnrecorded(p, f) ==
    /\ tally' = [tally EXCEPT ![p].files_failed = @ + 1]
    /\ pc' = [pc EXCEPT ![p] = "loop"]
    /\ UNCHANGED <<results, idx>>

\* A file without a filename gets an "error" result and the loop goes on.
RejectNoFilename(p, f) ==
    Record(p, FileIngestResult("unknown", NoDocId, 0, "error", "no_filename"))

\* One turn of the for loop, to the first aiofiles call of
\* process_single_file: the filename check, file.read(), the extension
\* check, the extraction and the empty-text check.
IngestNextFile(p, f) ==
    /\ pc[p] = "loop"
    /\ Len(files[p]) < nfiles[p]
    /\ files' = [files EXCEPT ![p] = Append(@, f)]
    /\ \/ /\ f.filename = ""
          /\ RejectNoFilename(p, f)
          /\ UNCHANGED faults
       \/ /\ f.filename # ""
          /\ CanFail
          /\ Fault
          /\ Record(p, ErrorResult(f, "read"))
       \/ /\ f.filename # ""
          /\ UNCHANGED faults
          /\ IF FileExtension(f.filename) \notin SupportedExtensions
             THEN Record(p, FileIngestResult(f.filename, NoDocId, 0, "skipped",
                                             FileExtension(f.filename)))
             ELSE IF f.content.kind = "unreadable"
             THEN Record(p, ErrorResult(f, "extract"))
             ELSE IF f.content.kind = "blank"
             THEN Record(p, ErrorResult(f, "empty_text"))
             ELSE /\ pc' = [pc EXCEPT ![p] = "store"]
                  /\ UNCHANGED <<results, tally, idx>>
    /\ UNCHANGED <<otherVars, storeVars, storage, nfiles, raw, response, found>>

\* "Save file to storage": the upload is written under STORAGE_DIR.  When
\* the write raises, the file may or may not have been created.
StoreUpload(p) ==
    /\ pc[p] = "store"
    /\ \/ /\ storage' = storage \cup {StoragePath(Cur(p))}
          /\ pc' = [pc EXCEPT ![p] = "load"]
          /\ UNCHANGED <<results, tally, idx, faults>>
       \/ /\ CanFail
          /\ Fault
          /\ \E s \in {storage, storage \cup {StoragePath(Cur(p))}} : storage' = s
          /\ Record(p, ErrorResult(Cur(p), "storage"))
    /\ UNCHANGED <<otherVars, storeVars, reqVars, raw, response, found>>

\* chunk_text, then load_index up to its first aiofiles call or, when
\* nothing is there to read, through encode to np.save.
IngestLoad(p) ==
    /\ pc[p] = "load"
    /\ LoadIndexBegin(p)
    /\ UNCHANGED <<loadFrame, raw>>

\* search_documents: load_index, and the answer when nothing is to be read.
SearchStart(r) ==
    /\ pc[r] = "idle"
    /\ LoadIndexBegin(r)
    /\ UNCHANGED <<loadFrame, raw>>

\* The worker thread reads chunks.json.
ReadChunks(p) ==
    /\ pc[p] = "rd_chunks"
    /\ raw' = [raw EXCEPT ![p] = chunksFile]
    /\ pc' = [pc EXCEPT ![p] = "got_chunks"]
    /\ UNCHANGED <<otherVars, storeVars, storage, reqVars, results, tally, idx, response, found, faults>>

\* The coroutine resumes with the content of chunks.json.
GotChunks(p) ==
    /\ pc[p] = "got_chunks"
    /\ ChunksLoaded(p)
    /\ raw' = [raw EXCEPT ![p] = NoFile]
    /\ UNCHANGED loadFrame

\* The worker thread reads docs.json.
ReadDocs(p) ==
    /\ pc[p] = "rd_docs"
    /\ raw' = [raw EXCEPT ![p] = docsFile]
    /\ pc' = [pc EXCEPT ![p] = "got_docs"]
    /\ UNCHANGED <<otherVars, storeVars, storage, reqVars, results, tally, idx, response, found, faults>>

\* The coroutine resumes with the content of docs.json.
GotDocs(p) ==
    /\ pc[p] = "got_docs"
    /\ DocsLoaded(p)
    /\ raw' = [raw EXCEPT ![p] = NoFile]
    /\ UNCHANGED loadFrame

\* ------------------------------------------------------------- save_index
\* A writer's bytes land at offset 0 of the file as it then is.  When
\* another writer's content arrived since this writer truncated the file,
\* the result is this writer's content if it is no shorter in bytes, and
\* otherwise its content followed by the other's tail, which does not parse.
Overwrite(file, d) ==
    IF file.st = "ok" /\ file.data # d THEN {Stored(d), Garbled} ELSE {Stored(d)}

\* The except clause of save_index re-raises, and the except clause of
\* process_single_file turns the exception into an "error" result.
SaveFails(p) ==
    /\ CanFail
    /\ Fault
    /\ Record(p, ErrorResult(Cur(p), "persist"))

saveFrame == <<embFile, storage, reqVars, raw, response, found, otherVars>>

\* aiofiles.open(chunks_path, 'w') truncates chunks.json.
OpenChunks(p) ==
    /\ pc[p] = "wr_chunks_open"
    /\ \/ /\ chunksFile' = Garbled
          /\ pc' = [pc EXCEPT ![p] = "wr_chunks"]
          /\ UNCHANGED <<results, tally, idx, faults>>
       \/ /\ SaveFails(p)
          /\ UNCHANGED chunksFile
    /\ UNCHANGED <<docsFile, saveFrame>>

\* f.write(json.dumps(chunks)) and the close that flushes it.
WriteChunks(p) ==
    /\ pc[p] = "wr_chunks"
    /\ \/ /\ \E o \in Overwrite(chunksFile, AllChunks(idx[p], Cur(p))) :
                chunksFile' = o
          /\ pc' = [pc EXCEPT ![p] = "wr_docs_open"]
          /\ UNCHANGED <<results, tally, idx, faults>>
       \/ /\ SaveFails(p)
          /\ \E o \in {chunksFile, Garbled} : chunksFile' = o
    /\ UNCHANGED <<docsFile, saveFrame>>

\* aiofiles.open(docs_path, 'w') truncates docs.json.
OpenDocs(p) ==
    /\ pc[p] = "wr_docs_open"
    /\ \/ /\ docsFile' = Garbled
          /\ pc' = [pc EXCEPT ![p] = "wr_docs"]
          /\ UNCHANGED <<results, tally, idx, faults>>
       \/ /\ SaveFails(p)
          /\ UNCHANGED docsFile
    /\ UNCHANGED <<chunksFile, saveFrame>>

\* f.write(json.dumps(docs)), the close, and the "success" result.
WriteDocs(p) ==
    /\ pc[p] = "wr_docs"
    /\ \/ /\ \E o \in Overwrite(docsFile, AllDocs(idx[p], Cur(p))) :
                docsFile' = o
          /\ Record(p, SuccessResult(Cur(p)))
          /\ UNCHANGED faults
       \/ /\ SaveFails(p)
          /\ \E o \in {docsFile, Garbled} : docsFile' = o
    /\ UNCHANGED <<chunksFile, saveFrame>>

\* After the loop: the summary is returned with HTTP 200.
IngestRespond(p) ==
    /\ pc[p] = "loop"
    /\ Len(files[p]) = nfiles[p]
    /\ pc' = [pc EXCEPT ![p] = "done"]
    /\ response' = [response EXCEPT ![p] = "ok"]
    /\ UNCHANGED <<otherVars, storeVars, storage, reqVars, results, tally, idx, raw, faults, found>>

\* The steps every request takes once it has started.
Steps ==
    \/ \E p \in Ingesters : StoreUpload(p)
    \/ \E p \in Ingesters : IngestLoad(p)
    \/ \E r \in Searchers : SearchStart(r)
    \/ \E p \in Procs : ReadChunks(p)
    \/ \E p \in Procs : GotChunks(p)
    \/ \E p \in Procs : ReadDocs(p)
    \/ \E p \in Procs : GotDocs(p)
    \/ \E p \in Ingesters : OpenChunks(p)
    \/ \E p \in Ingesters : WriteChunks(p)
    \/ \E p \in Ingesters : OpenDocs(p)
    \/ \E p \in Ingesters : WriteDocs(p)
    \/ \E p \in Ingesters : IngestRespond(p)

\* One /ingest request with any uploads, and the /search requests.
Next ==
    \/ \E n \in 0..MaxBatch : IngestStart("w1", n)
    \/ \E p \in Ingesters, f \in Uploads : IngestNextFile(p, f)
    \/ Steps

Spec == Init /\ [][Next]_vars

\* The uploads whose text is extracted and chunked.
TextUploads == {f \in Uploads : f.filename = "a.pdf" /\ f.content.kind = "text"}

\* Concurrent /ingest requests of one well-formed upload each, and the
\* /search requests.
NextConcurrent ==
    \/ \E p \in Ingesters : IngestStart(p, 1)
    \/ \E p \in Ingesters, f \in TextUploads : IngestNextFile(p, f)
    \/ Steps

SpecConcurrent == Init /\ [][NextConcurrent]_vars

\* ------------------------------------------------------ searching a store
\* The stores searched: some ingestions of one-chunk or longer texts have
\* left chunks of the documents d1 and d2, for the departments fin and hr,
\* whose vectors score just below, at, and far above SIMILARITY_THRESHOLD
\* against the query; before them the store may hold TopWindow - 1 chunks
\* of an older document d0 that score far above it.
Sims == {4499, 4500, 9004}

Depts == {"fin", "hr"}

ChunkKinds == [doc_id : {"d1", "d2"}, dept : Depts, sim : Sims]

Filler == [doc_id |-> "d0", dept |-> "fin", sim |-> 9004]

Fills == {0, TopWindow - 1}

\* The year the chunks of a document carry; those of d2 have none.
YearOfDoc(d) ==
    CASE d = "d0" -> SomeYear(2019)
      [] d = "d1" -> SomeYear(2021)
      [] OTHER -> NoneYear

KindsOf(fill, varied) == [i \in 1..fill |-> Filler] \o varied

\* chunks.json and embeddings.npy of such a store, position by position.
StoredChunks(kinds) ==
    [i \in DOMAIN kinds |->
        [id |-> <<kinds[i].doc_id, i>>, doc_id |-> kinds[i].doc_id,
         year |-> YearOfDoc(kinds[i].doc_id), dept |-> kinds[i].dept]]

StoredVectors(kinds) ==
    [i \in DOMAIN kinds |->
        [chunk |-> <<kinds[i].doc_id, i>>, sim |-> kinds[i].sim]]

\* docs.json of such a store: each ingestion appended the chunks of one
\* document and department, and one doc record.
RECURSIVE StoredDocs(_)
StoredDocs(kinds) ==
    IF kinds = <<>> THEN <<>>
    ELSE LET n == Len(kinds)
             k == kinds[n]
             before == StoredDocs(SubSeq(kinds, 1, n - 1))
         IN  IF n > 1 /\ kinds[n - 1].doc_id = k.doc_id /\ kinds[n - 1].dept = k.dept
             THEN before
             ELSE Append(before, [id |-> k.doc_id, title |-> k.doc_id,
                                  year |-> YearOfDoc(k.doc_id), dept |-> k.dept])

\* After the older chunks come chunks of d1 and d2 for fin only.
KindsAfter(fill) ==
    IF fill = 0 THEN ChunkKinds ELSE {k \in ChunkKinds : k.dept = "fin"}

Stores ==
    UNION {{KindsOf(fill, varied) :
                varied \in UNION {[1..n -> KindsAfter(fill)] : n \in 0..MaxStore}} :
            fill \in Fills}

\* The queries: with and without a dept filter, limit=-1, 1 and 10.
Queries == [dept : {NoDept, "fin"}, limit : {-1, 1, 10}]

\* embeddings.npy of a store: as save_index wrote it, or, of a store to
\* which a later np.save failed part-way, unreadable.
EmbeddingsLeft(kinds) ==
    {Stored(StoredVectors(kinds))}
        \cup (IF Len(kinds) \in 1..MaxStore THEN {Garbled} ELSE {})

\* A store is on disk (none when nothing was ingested), no request has
\* arrived, and the /search requests followed carry one query.
InitSearch ==
    /\ \E kinds \in Stores :
        IF kinds = <<>>
        THEN /\ embFile = NoFile
             /\ chunksFile = NoFile
             /\ docsFile = NoFile
             /\ storage = {}
        ELSE /\ embFile \in EmbeddingsLeft(kinds)
             /\ chunksFile = Stored(StoredChunks(kinds))
             /\ docsFile = Stored(StoredDocs(kinds))
             /\ storage = {<<kinds[i].doc_id, kinds[i].doc_id>> : i \in DOMAIN kinds}
    /\ InitIdle
    /\ \E q \in Queries : query = [r \in Searchers |-> q]
    /\ InitNoChunking
    /\ InitNoYear

\* The next /search request with the same q, dept and limit arrives.
SearchAgain(r) ==
    /\ pc[r] = "done"
    /\ Len(found[r]) < MaxSearches
    /\ pc' = [pc EXCEPT ![r] = "idle"]
    /\ response' = [response EXCEPT ![r] = "none"]
    /\ idx' = [idx EXCEPT ![r] = EmptyIndex]
    /\ UNCHANGED <<otherVars, storeVars, storage, reqVars, results, tally, raw, faults, found>>

NextSearch ==
    \/ \E r \in Searchers : SearchStart(r)
    \/ \E p \in Procs : ReadChunks(p)
    \/ \E p \in Procs : GotChunks(p)
    \/ \E p \in Procs : ReadDocs(p)
    \/ \E p \in Procs : GotDocs(p)
    \/ \E r \in Searchers : SearchAgain(r)

SpecSearch == InitSearch /\ [][NextSearch]_vars

\* -------------------------------------------------------------- chunk_text
\* The characters that matter to chunk_text: a letter, the full stop and
\* the space.
Texts ==
    UNION {
        UNION {
            {[i \in 1..n |-> IF i \in marks THEN m[i] ELSE "a"] :
                m \in [marks -> {".", " "}]} :
            marks \in {M \in SUBSET (1..n) : Cardinality(M) <= MaxMarks}} :
        n \in 0..MaxTextLen}

RECURSIVE RFindFrom(_, _, _)
RFindFrom(s, ch, i) ==
    IF i = 0 THEN -1
    ELSE IF s[i] = ch THEN i - 1
    ELSE RFindFrom(s, ch, i - 1)

\* s.rfind(ch): the 0-based index of the last ch in s, or -1.
rfind(s, ch) == RFindFrom(s, ch, Len(s))

RECURSIVE LStrip(_)
LStrip(s) == IF s # <<>> /\ Head(s) = " " THEN LStrip(Tail(s)) ELSE s

RECURSIVE RStrip(_)
RStrip(s) ==
    IF s # <<>> /\ s[Len(s)] = " " THEN RStrip(SubSeq(s, 1, Len(s) - 1)) ELSE s

\* s.strip()
Strip(s) == RStrip(LStrip(s))

\* PastEightyPercent with >= for >.
AtEightyPercent(i, size) == 10 * i >= 8 * size

\* last_period > chunk_size * 0.8, in tenths.
PastEightyPercent(i, size) == 10 * i > 8 * size

\* The end of the window that starts at st: "Try to break at a sentence or
\* word boundary".
CutPoint(t, st, size) ==
    LET e == st + size
        chunk == PySlice(t, st, e)
        last_period == rfind(chunk, ".")
        last_space == rfind(chunk, " ")
    IN  IF e < Len(t)
        THEN IF PastEightyPercent(last_period, size) THEN st + last_period + 1
             ELSE IF PastEightyPercent(last_space, size) THEN st + last_space
             ELSE e
        ELSE e

\* NextStart one character too far.
NextStartPastCut(e, ov) == e - ov + 1

\* start = end - overlap
NextStart(e, ov) == e - ov

\* chunk_text is called on some text with some chunk_size and overlap.
InitChunk ==
    /\ InitStore
    /\ InitDefaultQuery
    /\ InitNoYear
    /\ text \in Texts
    /\ chunk_size \in 1..MaxChunkSize
    /\ overlap \in 0..MaxOverlap
    /\ start = 0
    /\ end = 0
    /\ chunks = <<>>
    /\ cuts = <<>>
    /\ cpc = "call"

\* The lines before the loop: a short text is returned as its one chunk.
ChunkTextBegin ==
    /\ cpc = "call"
    /\ IF Len(text) <= chunk_size
       THEN chunks' = <<text>> /\ cpc' = "done"
       ELSE chunks' = <<>> /\ cpc' = "loop"
    /\ UNCHANGED <<text, chunk_size, overlap, start, end, cuts, ingestVars, yearVars>>

\* One turn of the while loop.  A call whose start advances takes at most
\* len(text) turns; the guard on the number of chunks ends the others.
ChunkTextLoop ==
    /\ cpc = "loop"
    /\ start < Len(text)
    /\ Len(chunks) <= Len(text)
    /\ end' = CutPoint(text, start, chunk_size)
    /\ chunks' = Append(chunks, Strip(PySlice(text, start, end')))
    /\ cuts' = Append(cuts, [start |-> start, end |-> end'])
    /\ start' = NextStart(end', overlap)
    /\ cpc' = IF start' >= Len(text) THEN "done" ELSE "loop"
    /\ UNCHANGED <<text, chunk_size, overlap, ingestVars, yearVars>>

NextChunk ==
    \/ ChunkTextBegin
    \/ ChunkTextLoop

SpecChunk == InitChunk /\ [][NextChunk]_vars

\* ------------------------------------------------- extract_year_from_text
\* The words of the extracted texts: years of both centuries, numbers that
\* are no years, and words around a year.
Words ==
    {<<"1", "9", "9", "9">>, <<"2", "0", "0", "1">>, <<"2", "0", "2", "3">>,
     <<"1", "8", "9", "9">>, <<"2", "1", "0", "0">>,
     <<"2", "0", "2", "3", "5">>, <<"x", "2", "0", "2", "3">>, <<"a", "c", "t">>}

\* The text: the words with a space between them.
RECURSIVE JoinWords(_)
JoinWords(ws) ==
    IF ws = <<>> THEN <<>>
    ELSE IF Len(ws) = 1 THEN ws[1]
    ELSE ws[1] \o <<" ">> \o JoinWords(Tail(ws))

WordSequences == UNION {[1..n -> Words] : n \in 0..MaxWords}

Digits == {"0", "1", "2", "3", "4", "5", "6", "7", "8", "9"}

\* \w of the words followed: a digit or a letter.
IsWordChar(c) == c # " "

\* \b at offset i (0-based) of t: a word character on exactly one side.
IsBoundary(t, i) ==
    LET before == i > 0 /\ IsWordChar(t[i])
        after == i < Len(t) /\ IsWordChar(t[i + 1])
    IN  before # after

\* The pattern \b(19|20)\d{2}\b matches at offset i of t.
MatchesAt(t, i) ==
    /\ i + 4 <= Len(t)
    /\ IsBoundary(t, i)
    /\ <<t[i + 1], t[i + 2]>> \in {<<"1", "9">>, <<"2", "0">>}
    /\ t[i + 3] \in Digits
    /\ t[i + 4] \in Digits
    /\ IsBoundary(t, i + 4)

\* re.findall(year_pattern, text) from offset i on: the pattern has one
\* group, so findall returns what the group matched, "19" or "20", for
\* each match, left to right and without overlap.
RECURSIVE FindAll(_, _)
FindAll(t, i) ==
    IF i >= Len(t) THEN <<>>
    ELSE IF MatchesAt(t, i)
    THEN <<SubSeq(t, i + 1, i + 2)>> \o FindAll(t, i + 4)
    ELSE FindAll(t, i + 1)

DigitValue(c) ==
    CASE c = "0" -> 0 [] c = "1" -> 1 [] c = "2" -> 2 [] c = "3" -> 3
      [] c = "4" -> 4 [] c = "5" -> 5 [] c = "6" -> 6 [] c = "7" -> 7
      [] c = "8" -> 8 [] c = "9" -> 9

\* int(s) of a string of digits.
RECURSIVE ToInt(_)
ToInt(s) ==
    IF s = <<>> THEN 0
    ELSE 10 * ToInt(SubSeq(s, 1, Len(s) - 1)) + DigitValue(s[Len(s)])

extract_year_from_text(t) ==
    LET years == FindAll(t, 0)
    IN  IF years # <<>>
        THEN SomeYear(MaxOf({ToInt(years[i]) : i \in DOMAIN years}))
        ELSE NoneYear

\* process_single_file is called with some year and extracts some text.
InitYear ==
    /\ InitStore
    /\ InitDefaultQuery
    /\ InitNoChunking
    /\ form_year \in {NoneYear, SomeYear(0), SomeYear(2015)}
    /\ ytext \in {JoinWords(ws) : ws \in WordSequences}
    /\ year = form_year
    /\ entry_year = [chunks |-> NoneYear, doc |-> NoneYear]
    /\ ypc = "call"

\* "Extract year if not provided"
InferYear ==
    /\ ypc = "call"
    /\ year' = IF ~YearIsTruthy(year) THEN extract_year_from_text(ytext) ELSE year
    /\ ypc' = "entries"
    /\ UNCHANGED <<form_year, ytext, entry_year, ingestVars, chunkVars>>

\* "Prepare new chunk and doc entries": each carries "year": year.
PrepareEntries ==
    /\ ypc = "entries"
    /\ entry_year' = [chunks |-> year, doc |-> year]
    /\ ypc' = "done"
    /\ UNCHANGED <<form_year, ytext, year, ingestVars, chunkVars>>

NextYear ==
    \/ InferYear
    \/ PrepareEntries

SpecYear == InitYear /\ [][NextYear]_vars

\* ------------------------------------------------------------------ claims
Range(q) == {q[i] : i \in DOMAIN q}

IsPrefix(a, b) == Len(a) <= Len(b) /\ SubSeq(b, 1, Len(a)) = a

\* The request is not inside process_single_file.
AtRest(p) == pc[p] \in {"idle", "loop", "done"}

\* The request is between the first aiofiles call of its load_index and the
\* end of its save_index.
InAppend(p) ==
    pc[p] \in {"rd_chunks", "got_chunks", "rd_docs", "got_docs",
               "wr_chunks_open", "wr_chunks", "wr_docs_open", "wr_docs"}

AllSucceeded ==
    \A p \in Ingesters : \A i \in DOMAIN results[p] :
        results[p][i].status = "success"

\* C1: once every ingestion so far has returned status "success" and none
\* is under way, the persisted store has as many vectors as chunks and
\* every chunk's doc_id is the id of a record of docs.
C1_StoreConsistentAfterAppends ==
    ((\A p \in Ingesters : AtRest(p)) /\ AllSucceeded)
        => /\ Len(Data(embFile)) = Len(Data(chunksFile))
           /\ \A c \in Range(Data(chunksFile)) :
                \E d \in Range(Data(docsFile)) : d.id = c.doc_id

\* C2: at most one ingestion at a time is between its load_index call and
\* the completion of its save_index call.
C2_AppendsSerialized == Cardinality({p \in Ingesters : InAppend(p)}) <= 1

\* C3: the store only grows by append: whenever a persisted list is
\* replaced by another, the old list is a prefix of the new one.
C3_GrowsOnlyByAppend ==
    [][/\ (embFile.st = "ok" /\ embFile'.st = "ok")
            => IsPrefix(embFile.data, embFile'.data)
       /\ (chunksFile.st = "ok" /\ chunksFile'.st = "ok")
            => IsPrefix(chunksFile.data, chunksFile'.data)
       /\ (docsFile.st = "ok" /\ docsFile'.st = "ok")
            => IsPrefix(docsFile.data, docsFile'.data)]_vars

\* The chunk entries that a list of doc records stands for, in order.
RECURSIVE ChunksOfDocs(_)
ChunksOfDocs(docs) ==
    IF docs = <<>> THEN <<>>
    ELSE LET d == docs[Len(docs)]
         IN  ChunksOfDocs(SubSeq(docs, 1, Len(docs) - 1))
                \o [i \in 1..d.id[2].n |->
                        [id |-> <<d.id, i>>, doc_id |-> d.id,
                         year |-> d.year, dept |-> d.dept]]

\* An index as a whole number of appends leaves it: the docs, their chunks
\* in order, and one vector per chunk.
WholeAppends(ix) ==
    /\ ix.chunks = ChunksOfDocs(ix.docs)
    /\ (IF ix.embeddings.none THEN <<>> ELSE ix.embeddings.data) = Encode(ix.chunks)

\* C4: with no failed write, what a search has loaded is the store as it
\* was before or after an append, never parts of both.
C4_SearchLoadsWholeAppends ==
    \A r \in Searchers : (pc[r] = "done" /\ faults = 0) => WholeAppends(idx[r])

\* C5: a failed store write is never a per-file result of a request that
\* is answered with the summary (HTTP 200).
C5_WriteFailureFailsRequest ==
    \A p \in Ingesters :
        response[p] = "ok"
            => \A i \in DOMAIN results[p] : results[p][i].cause # "persist"

\* C6: load_index returns every artifact that is present and parses: in a
\* step in which a search's load_index returns, each artifact it had not
\* read before and that holds a list at that moment is in the result.
C6_LoadDegradesPerArtifact ==
    [][\A r \in Searchers :
        /\ (pc[r] = "idle" /\ pc'[r] = "done")
            => /\ embFile.st = "ok"
                    => idx'[r].embeddings = [none |-> FALSE, data |-> embFile.data]
               /\ chunksFile.st = "ok" => idx'[r].chunks = chunksFile.data
               /\ docsFile.st = "ok" => idx'[r].docs = docsFile.data
        /\ (pc[r] = "got_chunks" /\ pc'[r] = "done")
            => (docsFile.st = "ok" => idx'[r].docs = docsFile.data)]_vars

\* The persisted store holds all that the ingestion of f wrote.
Persisted(f) ==
    /\ DocEntry(f) \in Range(Data(docsFile))
    /\ Range(ChunkEntries(f)) \subseteq Range(Data(chunksFile))
    /\ Range(Encode(ChunkEntries(f))) \subseteq Range(Data(embFile))

\* C7: once a file of a batch was ingested with status "success", its
\* vectors, chunks and doc record are in the persisted store after any
\* later file of the batch has ended with status "error" or "skipped".
C7_NoRollbackInBatch ==
    \A p \in Ingesters : \A i, j \in DOMAIN results[p] :
        (/\ i < j
         /\ results[p][i].status = "success"
         /\ results[p][j].status \in {"error", "skipped"})
            => Persisted(files[p][i])

\* The causes that are failures of the environment, not of the file.
FaultCauses == {"read", "storage", "embedding", "persist"}

\* What process_single_file owes a file when nothing around it fails.
Owed(f) ==
    IF f.filename = ""
    THEN FileIngestResult("unknown", NoDocId, 0, "error", "no_filename")
    ELSE IF f.filename = "notes.txt"
    THEN FileIngestResult(f.filename, NoDocId, 0, "skipped", "txt")
    ELSE IF f.content.kind = "unreadable"
    THEN FileIngestResult(f.filename, NoDocId, 0, "error", "extract")
    ELSE IF f.content.kind = "blank"
    THEN FileIngestResult(f.filename, NoDocId, 0, "error", "empty_text")
    ELSE SuccessResult(f)

\* C8: every file of a batch gets exactly one result, in input order; a file
\* that fails does not keep a later file from its result, and a later valid
\* file is ingested with status "success" unless the environment fails it.
C8_BatchIsolation ==
    \A p \in Ingesters :
        /\ Len(results[p]) = (IF AtRest(p) THEN Len(files[p]) ELSE Len(files[p]) - 1)
        /\ response[p] = "ok" => Len(results[p]) = nfiles[p]
        /\ \A i \in DOMAIN results[p] :
            LET f == files[p][i]
                res == results[p][i]
            IN  \/ /\ res.status = Owed(f).status
                   /\ res.filename = Owed(f).filename
                   /\ res.cause = Owed(f).cause
                   /\ res.status = "success" =>
                        /\ res.chunks_created = f.content.n
                        /\ res.document_id = DocIdOf(f)
                \/ /\ f.filename # ""
                   /\ res.status = "error"
                   /\ res.filename = f.filename
                   /\ res.cause \in FaultCauses

\* A batch answered in full whose first file failed and whose second file
\* was ingested.
C8_Witness ==
    \E p \in Ingesters :
        /\ response[p] = "ok"
        /\ Len(results[p]) = 2
        /\ results[p][1].status \in {"error", "skipped"}
        /\ results[p][2].status = "success"
        /\ Persisted(files[p][2])

\* C9: in each loop iteration of chunk_text, start is strictly greater than
\* in the iteration before.
C9_StartStrictlyIncreases ==
    \A i \in DOMAIN cuts : i < Len(cuts) => cuts[i + 1].start > cuts[i].start

\* The 0-based places of ch in w that lie after 80% of chunk_size.
LatePlaces(w, ch) ==
    {k \in 0..(Len(w) - 1) : w[k + 1] = ch /\ 10 * k > 8 * chunk_size}

SetMax(S) == CHOOSE x \in S : \A y \in S : y <= x

\* The cut the priority rule asks for in the window that starts at st.
RuleCut(st) ==
    LET w == PySlice(text, st, st + chunk_size)
    IN  IF LatePlaces(w, ".") # {} THEN st + SetMax(LatePlaces(w, ".")) + 1
        ELSE IF LatePlaces(w, " ") # {} THEN st + SetMax(LatePlaces(w, " "))
        ELSE st + chunk_size

Answered ==
    UNION {{found[r][k] : k \in {j \in DOMAIN found[r] : found[r][j].status = "ok"}} :
            r \in Searchers}

\* The query of the searches (every search of a run carries the same).
TheQuery == query[CHOOSE r \in Searchers : TRUE]

\* The 1-based positions of the stored chunks, and the score of each.
Positions == DOMAIN Data(chunksFile)

ScoreAt(i) == Data(embFile)[i].sim

\* Fewer than 50 stored chunks score higher than the chunk at position i.
AmongTop50(i) ==
    \/ Cardinality(Positions) <= 50
    \/ Cardinality({j \in Positions : ScoreAt(j) > ScoreAt(i)}) < 50

\* The positions of the stored chunks with fewer than 50 chunks above them.
Top50 ==
    LET scores == {ScoreAt(i) : i \in Positions}
        high == {v \in scores :
                    Cardinality({j \in Positions : ScoreAt(j) > v}) < 50}
    IN  {i \in Positions : ScoreAt(i) \in high}

PassesDept(i) ==
    TheQuery.dept \in {NoDept, ""} \/ Data(chunksFile)[i].dept = TheQuery.dept

\* C11: every chunk that contributes to a result, as its representative or
\* in its chunk_count, is among the 50 highest-scoring stored chunks: a
\* chunk outside them never contributes, whatever it scores and whatever
\* its dept.
C11_OnlyTop50Contribute ==
    LET top50 == Top50
    IN  \A a \in Answered : \A k \in DOMAIN a.results :
        LET res == a.results[k]
        IN  /\ (res.best_chunk.chunk_idx + 1) \in top50
            /\ res.chunk_count <=
                    Cardinality({i \in top50 :
                        /\ Data(chunksFile)[i].doc_id = res.id
                        /\ ScoreAt(i) >= 4500
                        /\ PassesDept(i)})

\* A search answered with fewer than limit results, none of them for the
\* document of a stored chunk that clears 0.45 and passes the dept filter
\* but has 50 chunks scoring higher.
C11_Witness ==
    \E a \in Answered : \E i \in Positions :
        /\ ~AmongTop50(i)
        /\ ScoreAt(i) >= 4500
        /\ PassesDept(i)
        /\ TheQuery.dept = "fin"
        /\ Len(a.results) > 0
        /\ Len(a.results) < TheQuery.limit
        /\ \A k \in DOMAIN a.results : a.results[k].id # Data(chunksFile)[i].doc_id

\* The answers given with HTTP 200.
Returned ==
    UNION {{found[r][k] : k \in {j \in DOMAIN found[r] : found[r][j].status # "http500"}} :
            r \in Searchers}

\* C12: the aggregates of every search answered count all stored chunks:
\* for each year (and each dept) that a stored chunk carries, byYear (byDept)
\* has the number of stored chunks that carry it, whatever the query, the
\* threshold and the dept filter.
C12_AggregatesCountTheStore ==
    \A a \in Returned : \A i \in Positions :
        LET c == Data(chunksFile)[i]
        IN  /\ (~c.year.none /\ c.year.v # 0) =>
                    /\ c.year.v \in DOMAIN a.aggregates.byYear
                    /\ a.aggregates.byYear[c.year.v] =
                            Cardinality({j \in Positions :
                                Data(chunksFile)[j].year = c.year})
            /\ c.dept \notin {NoDept, ""} =>
                    /\ c.dept \in DOMAIN a.aggregates.byDept
                    /\ a.aggregates.byDept[c.dept] =
                            Cardinality({j \in Positions :
                                Data(chunksFile)[j].dept = c.dept})

\* No stored vector scores 0.45 or more against the query.
NothingClears == \A i \in DOMAIN Data(embFile) : Data(embFile)[i].sim < 4500

\* C13: the representative chunk of every result scores at least 0.45
\* before rounding, and while no stored chunk clears 0.45 and no service
\* fails, every search is answered, without an error and without results.
C13_NoResultBelowThreshold ==
    /\ \A a \in Answered : \A k \in DOMAIN a.results :
            /\ a.results[k].best_chunk.score >= 4500
            /\ Data(embFile)[a.results[k].best_chunk.chunk_idx + 1].sim >= 4500
    /\ (NothingClears /\ faults = 0) =>
            \A r \in Searchers : \A k \in DOMAIN found[r] :
                /\ found[r][k].status # "http500"
                /\ found[r][k].results = <<>>

\* A result whose representative scores exactly 0.45, from a store with a
\* chunk of another document that scores 0.4499 and is in no result.
C13_Witness ==
    \E a \in Answered : \E k \in DOMAIN a.results : \E i \in Positions :
        /\ a.results[k].best_chunk.score = 4500
        /\ Data(embFile)[i].sim = 4499
        /\ PassesDept(i)
        /\ Len(a.results) < TheQuery.limit
        /\ \A n \in DOMAIN a.results : a.results[n].id # Data(chunksFile)[i].doc_id

\* How many stored chunks come before the chunk at position i when all are
\* put in descending order of score, equal scores in stored order.
Rank(i) ==
    Cardinality({j \in Positions :
        ScoreAt(j) > ScoreAt(i) \/ (ScoreAt(j) = ScoreAt(i) /\ j < i)})

\* The positions of the surviving chunks.
Survivors ==
    {i \in Positions :
        /\ ScoreAt(i) >= 4500
        /\ PassesDept(i)
        /\ (Cardinality(Positions) <= 50 \/ Rank(i) < 50)}

\* C14: the results are one per parent document of the surviving chunks;
\* a result's score is the greatest score of its group, its metadata are
\* those of a chunk of the group with that score, chunk_count is the size
\* of the group; the results are in descending order of score, and they
\* are the limit best groups and no more.
C14_OneResultPerDocument ==
    LET surv == Survivors
        Group(d) == {i \in surv : Data(chunksFile)[i].doc_id = d}
        GroupMax(d) == SetMax({ScoreAt(i) : i \in Group(d)})
        groups == {Data(chunksFile)[i].doc_id : i \in surv}
    IN  \A a \in Answered :
        /\ \A k, n \in DOMAIN a.results : a.results[k].id = a.results[n].id => k = n
        /\ \A k \in DOMAIN a.results :
            LET res == a.results[k]
                at == res.best_chunk.chunk_idx + 1
            IN  /\ res.id \in groups
                /\ at \in Group(res.id)
                /\ ScoreAt(at) = GroupMax(res.id)
                /\ res.best_chunk.score = GroupMax(res.id)
                /\ res.best_chunk.id = Data(chunksFile)[at].id
                /\ res.year = Data(chunksFile)[at].year
                /\ res.dept = Data(chunksFile)[at].dept
                /\ res.chunk_count = Cardinality(Group(res.id))
                /\ \A d \in groups :
                        (\A n \in DOMAIN a.results : a.results[n].id # d)
                            => GroupMax(d) <= GroupMax(res.id)
        /\ \A k \in DOMAIN a.results :
                k < Len(a.results) =>
                    a.results[k].best_chunk.score >= a.results[k + 1].best_chunk.score
        /\ Len(a.results) <= (IF TheQuery.limit < 0 THEN 0 ELSE TheQuery.limit)
        /\ Len(a.results) < TheQuery.limit => Len(a.results) = Cardinality(groups)

\* ---------------------------------------------------- claims on ingestion
\* The 4-digit tokens of ytext that lie in [1900,1999] or [2000,2099].
YearTokens ==
    {ToInt(SubSeq(ytext, a, a + 3)) :
        a \in {b \in 1..(Len(ytext) - 3) :
            /\ (b = 1 \/ ytext[b - 1] = " ")
            /\ (b + 3 = Len(ytext) \/ ytext[b + 4] = " ")
            /\ \A k \in b..(b + 3) : ytext[k] \in Digits
            /\ ToInt(SubSeq(ytext, b, b + 3)) \in 1900..2099}}

\* C15: when no year is given with the request, the year put on the doc
\* entry and on the chunk entries is the greatest 4-digit token of the
\* text in [1900,2099]; with no such token it is left unset.
C15_YearIsGreatestToken ==
    (ypc = "done" /\ form_year.none) =>
        LET expected ==
                IF YearTokens = {} THEN NoneYear ELSE SomeYear(SetMax(YearTokens))
        IN  /\ entry_year.doc = expected
            /\ entry_year.chunks = expected

\* The successful ingestions, by any request, that returned document id d.
IngestionsOf(d) ==
    UNION {{<<p, n>> : n \in {k \in DOMAIN results[p] :
                        /\ results[p][k].status = "success"
                        /\ results[p][k].document_id = d}} : p \in Ingesters}

\* C16: a file ingested again, byte for byte and under the same filename,
\* gets the same document_id and the same chunks_created, and nothing is
\* suppressed: with no failure and no ingestion under way, the store holds
\* one doc record and one set of chunks with that id per ingestion.
C16_ReingestionAppendsAgain ==
    (faults = 0 /\ \A p \in Ingesters : AtRest(p)) =>
        \A p \in Ingesters : \A i, j \in DOMAIN results[p] :
            (/\ i < j
             /\ files[p][i] = files[p][j]
             /\ results[p][i].status = "success"
             /\ results[p][j].status = "success")
                => LET d == results[p][i].document_id
                   IN  /\ results[p][j].document_id = d
                       /\ results[p][j].chunks_created = results[p][i].chunks_created
                       /\ Cardinality({k \in DOMAIN Data(docsFile) :
                                Data(docsFile)[k].id = d})
                            = Cardinality(IngestionsOf(d))
                       /\ Cardinality({k \in DOMAIN Data(chunksFile) :
                                Data(chunksFile)[k].doc_id = d})
                            = Cardinality(IngestionsOf(d)) * results[p][i].chunks_created
                       /\ Len(Data(embFile)) = Len(Data(chunksFile))

\* A batch of the same two-chunk file twice, answered: two doc records and
\* four chunks with the one id.
C16_Witness ==
    \E p \in Ingesters :
        /\ response[p] = "ok"
        /\ faults = 0
        /\ Len(results[p]) = 2
        /\ files[p][1] = files[p][2]
        /\ results[p][1].status = "success"
        /\ results[p][2].status = "success"
        /\ results[p][1].chunks_created = 2
        /\ results[p][1].document_id = results[p][2].document_id
        /\ Len(Data(docsFile)) = 2
        /\ Data(docsFile)[1].id = Data(docsFile)[2].id
        /\ Len(Data(chunksFile)) = 4

C18_UnsupportedIsSkipped ==
    [][\A p \in Ingesters :
        (/\ Len(results'[p]) = Len(results[p]) + 1
         /\ files'[p][Len(results'[p])].filename = "notes.txt")
            => LET res == results'[p][Len(results'[p])]
               IN  /\ res.filename = "notes.txt"
                   /\ res.status # "success"
                   /\ res.cause # "read" =>
                        /\ res.status = "skipped"
                        /\ res.cause = "txt"
                        /\ res.chunks_created = 0
                        /\ res.document_id = NoDocId
                   /\ embFile' = embFile
                   /\ chunksFile' = chunksFile
                   /\ docsFile' = docsFile
                   /\ storage' = storage]_vars

\* A batch answered in which notes.txt was skipped after a.pdf had been
\* ingested, and the store holds what a.pdf's ingestion wrote and no more.
C18_Witness ==
    \E p \in Ingesters :
        /\ response[p] = "ok"
        /\ Len(results[p]) = 2
        /\ results[p][1].status = "success"
        /\ files[p][2].filename = "notes.txt"
        /\ results[p][2].status = "skipped"
        /\ results[p][2].cause = "txt"
        /\ Persisted(files[p][1])
        /\ Len(Data(docsFile)) = 1
        /\ Cardinality(storage) = 1

\* ------------------------------------------------ claims on chunk_text, 2
\* C19: when chunk_text returns for a text longer than chunk_size, with an
\* overlap smaller than every window's advance, the windows [start, end)
\* in order cover every position of the text, the first starts at 0, each
\* later one starts overlap before the cut of the one before, none is
\* longer than chunk_size, and one chunk was emitted per window.
C19_WindowsCoverTheText ==
    (/\ cpc = "done"
     /\ Len(text) > chunk_size
     /\ \A i \in DOMAIN cuts : overlap < cuts[i].end - cuts[i].start)
        => /\ cuts # <<>>
           /\ cuts[1].start = 0
           /\ \A pos \in 0..(Len(text) - 1) :
                \E i \in DOMAIN cuts : cuts[i].start <= pos /\ pos < cuts[i].end
           /\ \A i \in DOMAIN cuts :
                /\ i > 1 => cuts[i].start = cuts[i - 1].end - overlap
                /\ cuts[i].end - cuts[i].start <= chunk_size
                /\ cuts[i].end - cuts[i].start >= 1
           /\ Len(chunks) = Len(cuts)

\* chunk_text has returned three or more windows with an overlap, one of
\* them cut short at a boundary.
C19_Witness ==
    /\ cpc = "done"
    /\ Len(text) > chunk_size
    /\ overlap > 0
    /\ Len(cuts) >= 3
    /\ \A i \in DOMAIN cuts : overlap < cuts[i].end - cuts[i].start
    /\ \E i \in DOMAIN cuts : cuts[i].end - cuts[i].start < chunk_size

\* -------------------------------------------------- claims on the summary
RECURSIVE ChunksOfSuccesses(_)
ChunksOfSuccesses(res) ==
    IF res = <<>> THEN 0
    ELSE ChunksOfSuccesses(SubSeq(res, 1, Len(res) - 1))
            + (IF res[Len(res)].status = "success"
               THEN res[Len(res)].chunks_created ELSE 0)

\* C20: the counters agree with the results at every moment of a batch,
\* and in the summary returned files_processed, which is len(files), is the
\* number of results: files_successful counts the results with status
\* "success", files_failed all others (the skipped ones too), the two add
\* up to the number of results, and total_chunks_created is the sum of
\* chunks_created over the successful results.
C20_SummaryMatchesResults ==
    \A p \in Ingesters :
        LET successes ==
                {i \in DOMAIN results[p] : results[p][i].status = "success"}
        IN  /\ tally[p].files_successful = Cardinality(successes)
            /\ tally[p].files_failed = Len(results[p]) - Cardinality(successes)
            /\ tally[p].files_successful + tally[p].files_failed = Len(results[p])
            /\ tally[p].total_chunks = ChunksOfSuccesses(results[p])
            /\ response[p] = "ok" => nfiles[p] = Len(results[p])

\* A summary returned for a batch of a two-chunk file ingested and a file
\* skipped: one success, one failure, two chunks.
C20_Witness ==
    \E p \in Ingesters :
        /\ response[p] = "ok"
        /\ nfiles[p] = 2
        /\ \E i, j \in DOMAIN results[p] :
                /\ results[p][i].status = "success"
                /\ results[p][i].chunks_created = 2
                /\ results[p][j].status = "skipped"
        /\ tally[p] = [files_successful |-> 1, files_failed |-> 1, total_chunks |-> 2]

====
